---------------------------- MODULE Spec2Model ----------------------------
(***************************************************************************)
(* The relativistic vector algebra of r2: src/src/r2/core.py (the package  *)
(* r2 exports) and its earlier draft src/src/core/core.py.                 *)
(*                                                                         *)
(* Numbers.  The code computes on Python numbers.  The model computes      *)
(* exactly, on the numbers of the form (n/d) * c^e with n/d a rational in  *)
(* lowest terms and c = Constants.LIGHT_VELOCITY kept symbolic (c^2 is     *)
(* beyond TLC's integers, and a symbolic c lets a wrong power of c show).  *)
(* A sum of two such numbers with different powers of c is not of that     *)
(* form, and neither is the square root of a non-square: RAdd and RSqrt    *)
(* are left undefined there, so that TLC stops rather than computes a      *)
(* wrong value.  The operations that take a square root are modelled on    *)
(* the velocities where it is rational (Exact).                            *)
(***************************************************************************)
EXTENDS Integers, Sequences, FiniteSets, TLC

VARIABLES objs, lists, ret, dobjs

vars == <<objs, lists, ret, dobjs>>

---------------------------------------------------------------------------
(* scalar = float | int | double: exact arithmetic on (n/d) * c^e          *)

Abs(x) == IF x < 0 THEN -x ELSE x

RECURSIVE GCD(_, _)
GCD(a, b) == IF b = 0 THEN a ELSE GCD(b, a % b)

Zero == [n |-> 0, d |-> 1, e |-> 0]

Q(n, d, e) ==
    IF n = 0 THEN Zero
    ELSE LET g == GCD(Abs(n), Abs(d))
             s == IF d < 0 THEN -1 ELSE 1
         IN  [n |-> (s * n) \div g, d |-> (s * d) \div g, e |-> e]

Int2R(k) == Q(k, 1, 0)

One == Int2R(1)

RNeg(a) == Q(-a.n, a.d, a.e)

RAdd(a, b) ==
    CASE a.n = 0 -> b
      [] a.n # 0 /\ b.n = 0 -> a
      [] a.n # 0 /\ b.n # 0 /\ a.e = b.e ->
            LET g == GCD(a.d, b.d)
            IN  Q(a.n * (b.d \div g) + b.n * (a.d \div g), (a.d \div g) * b.d, a.e)

RSub(a, b) == RAdd(a, RNeg(b))

\* the common factors go before the products are taken, to keep them small
RMul(a, b) ==
    IF a.n = 0 \/ b.n = 0 THEN Zero
    ELSE LET g == GCD(Abs(a.n), b.d)
             h == GCD(Abs(b.n), a.d)
         IN  Q((a.n \div g) * (b.n \div h), (a.d \div h) * (b.d \div g), a.e + b.e)

\* a / b for b # 0; the callers raise ZeroDivisionError on b = 0
RDiv(a, b) == RMul(a, Q(b.d, b.n, 0 - b.e))

RLess(a, b) == RSub(a, b).n < 0

\* the largest r in lo..hi with r * r <= k
RECURSIVE SqrtSearch(_, _, _)
SqrtSearch(k, lo, hi) ==
    IF lo >= hi THEN lo
    ELSE LET mid == (lo + hi + 1) \div 2
         IN  IF mid * mid <= k
             THEN SqrtSearch(k, mid, hi)
             ELSE SqrtSearch(k, lo, mid - 1)

FloorSqrt(k) == SqrtSearch(k, 0, IF k < 46340 THEN k ELSE 46340)

IsSquare(k) == k >= 0 /\ FloorSqrt(k) * FloorSqrt(k) = k

\* the square root of a square; of nothing else
ISqrt(k) == CASE IsSquare(k) -> FloorSqrt(k)

\* x ** 0.5 for x >= 0
RSqrt(a) ==
    CASE a.n >= 0 /\ a.e % 2 = 0 -> Q(ISqrt(a.n), ISqrt(a.d), a.e \div 2)

\* Constants.LIGHT_VELOCITY, the symbolic c
LIGHT_VELOCITY == [n |-> 1, d |-> 1, e |-> 1]

LIGHT_VELOCITY_SQUARED == RMul(LIGHT_VELOCITY, LIGHT_VELOCITY)

\* q * c and q * c^2, for writing inputs
InC(n, d) == Q(n, d, 1)
InC2(n, d) == Q(n, d, 2)

---------------------------------------------------------------------------
(* Values and outcomes.  An outcome is what a call produces: a vector (its *)
(* class and coordinates), a number, None, or the exception it raises.     *)

Vec(cls, coords) ==
    [kind |-> "vector", cls |-> cls, coordinates |-> coords, val |-> Zero, err |-> ""]
Num(x) ==
    [kind |-> "number", cls |-> "", coordinates |-> <<>>, val |-> x, err |-> ""]
Raise(e) ==
    [kind |-> "error", cls |-> "", coordinates |-> <<>>, val |-> Zero, err |-> e]
None ==
    [kind |-> "none", cls |-> "", coordinates |-> <<>>, val |-> Zero, err |-> ""]

\* a constructor argument: a number, or something that is not one (a str)
NumArg(x) == [isnum |-> TRUE, v |-> x]
StrArg == [isnum |-> FALSE, v |-> Zero]

SpaceClasses == {"SpaceVector", "VelocityVector"}
QuadriClasses ==
    {"QuadriVector", "VelocityQuadriVector", "ImpulseQuadriVector", "ForceQuadriVector"}
Classes == SpaceClasses \cup QuadriClasses

\* isinstance(x, SpaceVector), isinstance(x, QuadriVector)
IsSpaceVector(x) == x.kind = "vector" /\ x.cls \in SpaceClasses
IsQuadriVector(x) == x.kind = "vector" /\ x.cls \in QuadriClasses

Map(f(_), s) == [i \in 1..Len(s) |-> f(s[i])]

Min(a, b) == IF a < b THEN a ELSE b

---------------------------------------------------------------------------
(* src/src/r2/core.py                                                      *)

\* Vector.__init__: the arguments that are numbers, in order
ArgIsNum(a) == a.isnum
ArgVal(a) == a.v
Vector__init__(args) == Map(ArgVal, SelectSeq(args, ArgIsNum))

SpaceVector__init__(cls, args) ==
    LET coordinates == Vector__init__(args)
    IN  IF Len(coordinates) \notin {0, 3}
        THEN Raise("VectorShapeError")
        ELSE Vec(cls, coordinates)

QuadriVector__init__(cls, args) ==
    LET coordinates == Vector__init__(args)
    IN  IF Len(coordinates) \notin {0, 4}
        THEN Raise("VectorShapeError")
        ELSE Vec(cls, coordinates)

\* cls(*args)
Construct(cls, args) ==
    IF cls \in SpaceClasses
    THEN SpaceVector__init__(cls, args)
    ELSE QuadriVector__init__(cls, args)

\* cls(*coordinates) on numbers
ConstructNum(cls, coordinates) == Construct(cls, Map(NumArg, coordinates))

\* sum(a * b for a, b in zip(xs, ys)): zip stops at the shorter list
RECURSIVE SumProducts(_, _, _)
SumProducts(xs, ys, k) ==
    IF k = 0 THEN Zero
    ELSE RAdd(SumProducts(xs, ys, k - 1), RMul(xs[k], ys[k]))

Dot(xs, ys) == SumProducts(xs, ys, Min(Len(xs), Len(ys)))

Vector__add__(self, other) ==
    IF Len(other.coordinates) = Len(self.coordinates)
    THEN ConstructNum(self.cls,
            [i \in 1..Len(self.coordinates) |->
                RAdd(RAdd(Zero, self.coordinates[i]), other.coordinates[i])])
    ELSE Raise("TypeError")

Vector__mul__(self, something) ==
    ConstructNum(self.cls,
        [i \in 1..Len(self.coordinates) |-> RMul(something, self.coordinates[i])])

SpaceVector__mul__(self, something) ==
    IF something.kind = "number"
    THEN Vector__mul__(self, something.val)
    ELSE IF IsSpaceVector(something)
    THEN Num(Dot(self.coordinates, something.coordinates))
    ELSE Raise("TypeError")

to_space_vector(self) ==
    ConstructNum("SpaceVector", SubSeq(self.coordinates, 2, Len(self.coordinates)))

QuadriVector__mul__(self, something) ==
    IF something.kind = "number"
    THEN Vector__mul__(self, something.val)
    ELSE IF IsQuadriVector(something)
    THEN IF Len(self.coordinates) = 0 \/ Len(something.coordinates) = 0
         THEN Raise("IndexError")
         ELSE Num(RSub(RMul(self.coordinates[1], something.coordinates[1]),
                       Dot(to_space_vector(self).coordinates,
                           to_space_vector(something).coordinates)))
    ELSE Raise("TypeError")

\* self * something, dispatched on the class of self
Mul(self, something) ==
    IF self.cls \in SpaceClasses
    THEN SpaceVector__mul__(self, something)
    ELSE QuadriVector__mul__(self, something)

compute_beta(self) ==
    Num(RDiv(RSqrt(Dot(self.coordinates, self.coordinates)), LIGHT_VELOCITY))

compute_gamma(self) ==
    IF RLess(Dot(self.coordinates, self.coordinates), LIGHT_VELOCITY_SQUARED)
    THEN LET beta == compute_beta(self).val
         IN  Num(RDiv(One, RSqrt(RSub(One, RMul(beta, beta)))))
    ELSE Raise("NotDefinedError")

\* the velocities whose beta, and gamma when defined, are rational
Exact(v) ==
    LET s == Dot(v.coordinates, v.coordinates)
    IN  /\ s.n = 0 \/ s.e = 2
        /\ IsSquare(s.n) /\ IsSquare(s.d)
        /\ RLess(s, LIGHT_VELOCITY_SQUARED) =>
              LET r == RSub(One, RDiv(s, LIGHT_VELOCITY_SQUARED))
              IN  IsSquare(r.n) /\ IsSquare(r.d)

\* lorentz_transform with the sign of v . r / c wrong in ct'
lorentz_transform_sign(self, velocity_vector) ==
    LET g == compute_gamma(velocity_vector)
    IN  IF g.kind = "error" THEN g
        ELSE IF Len(self.coordinates) = 0 THEN Raise("IndexError")
        ELSE
          LET gamma == g.val
              ct_coordinate == self.coordinates[1]
              space_vector == to_space_vector(self)
              ct_coordinate_transformed ==
                  RMul(gamma,
                       RAdd(ct_coordinate,
                            RDiv(Dot(velocity_vector.coordinates,
                                     space_vector.coordinates),
                                 LIGHT_VELOCITY)))
              vv == Dot(velocity_vector.coordinates, velocity_vector.coordinates)
          IN  IF space_vector.kind = "error" THEN space_vector
              ELSE IF vv.n = 0 THEN Raise("ZeroDivisionError")
              ELSE
                LET coefficient ==
                        RSub(RMul(RSub(gamma, One),
                                  RDiv(Dot(space_vector.coordinates,
                                           velocity_vector.coordinates), vv)),
                             RDiv(RMul(gamma, ct_coordinate), LIGHT_VELOCITY))
                    scaled == Vector__mul__(velocity_vector, coefficient)
                    space_vector_transformed == Vector__add__(space_vector, scaled)
                IN  IF space_vector_transformed.kind = "error"
                    THEN space_vector_transformed
                    ELSE ConstructNum(self.cls,
                            <<ct_coordinate_transformed>>
                                \o space_vector_transformed.coordinates)

lorentz_transform(self, velocity_vector) ==
    LET g == compute_gamma(velocity_vector)
    IN  IF g.kind = "error" THEN g
        ELSE IF Len(self.coordinates) = 0 THEN Raise("IndexError")
        ELSE
          LET gamma == g.val
              ct_coordinate == self.coordinates[1]
              space_vector == to_space_vector(self)
              ct_coordinate_transformed ==
                  RMul(gamma,
                       RSub(ct_coordinate,
                            RDiv(Dot(velocity_vector.coordinates,
                                     space_vector.coordinates),
                                 LIGHT_VELOCITY)))
              vv == Dot(velocity_vector.coordinates, velocity_vector.coordinates)
          IN  IF space_vector.kind = "error" THEN space_vector
              ELSE IF vv.n = 0 THEN Raise("ZeroDivisionError")
              ELSE
                LET coefficient ==
                        RSub(RMul(RSub(gamma, One),
                                  RDiv(Dot(space_vector.coordinates,
                                           velocity_vector.coordinates), vv)),
                             RDiv(RMul(gamma, ct_coordinate), LIGHT_VELOCITY))
                    scaled == Vector__mul__(velocity_vector, coefficient)
                    space_vector_transformed == Vector__add__(space_vector, scaled)
                IN  IF space_vector_transformed.kind = "error"
                    THEN space_vector_transformed
                    ELSE ConstructNum(self.cls,
                            <<ct_coordinate_transformed>>
                                \o space_vector_transformed.coordinates)

\* QuadriVector.from_space_vector
QuadriVector_from_space_vector(cls, ct_coordinate, space_vector) ==
    ConstructNum(cls, <<ct_coordinate>> \o space_vector.coordinates)

VelocityQuadriVector_from_space_vector(cls, velocity_vector) ==
    LET g == compute_gamma(velocity_vector)
    IN  IF g.kind = "error" THEN g
        ELSE LET base == ConstructNum(cls,
                            <<LIGHT_VELOCITY>> \o velocity_vector.coordinates)
             IN  IF base.kind = "error" THEN base ELSE Mul(base, g)

\* energy: Given(x) for a number, NotGiven for the default None
Given(x) == [given |-> TRUE, v |-> x]
NotGiven == [given |-> FALSE, v |-> Zero]

\* Python's "not energy": None, or a number equal to 0
NotTruthy(energy) == ~energy.given \/ energy.v.n = 0

\* the factory dividing the energy by c, not by c ** 2
ImpulseQuadriVector_from_space_vector_c(cls, velocity_vector, mass, energy) ==
    IF NotTruthy(energy) /\ mass.n = 0 THEN Raise("MissingParameterError")
    ELSE
      LET g == IF NotTruthy(energy) THEN compute_gamma(velocity_vector) ELSE Num(One)
      IN  IF g.kind = "error" THEN g
          ELSE
            LET e == IF NotTruthy(energy)
                     THEN RMul(RMul(g.val, mass), LIGHT_VELOCITY_SQUARED)
                     ELSE energy.v
                base == ConstructNum(cls,
                            <<LIGHT_VELOCITY>> \o velocity_vector.coordinates)
            IN  IF base.kind = "error" THEN base
                ELSE Mul(base, Num(RDiv(e, LIGHT_VELOCITY)))

ImpulseQuadriVector_from_space_vector(cls, velocity_vector, mass, energy) ==
    IF NotTruthy(energy) /\ mass.n = 0 THEN Raise("MissingParameterError")
    ELSE
      LET g == IF NotTruthy(energy) THEN compute_gamma(velocity_vector) ELSE Num(One)
      IN  IF g.kind = "error" THEN g
          ELSE
            LET e == IF NotTruthy(energy)
                     THEN RMul(RMul(g.val, mass), LIGHT_VELOCITY_SQUARED)
                     ELSE energy.v
                base == ConstructNum(cls,
                            <<LIGHT_VELOCITY>> \o velocity_vector.coordinates)
            IN  IF base.kind = "error" THEN base
                ELSE Mul(base, Num(RDiv(e, LIGHT_VELOCITY_SQUARED)))

compute_energy(self) ==
    IF Len(self.coordinates) = 0 THEN Raise("IndexError")
    ELSE Num(RMul(self.coordinates[1], LIGHT_VELOCITY))

ForceQuadriVector_from_space_vector(cls, velocity_vector, space_vector) ==
    LET g == compute_gamma(velocity_vector)
    IN  IF g.kind = "error" THEN g
        ELSE
          LET ct == Mul(Mul(space_vector, Num(RDiv(g.val, LIGHT_VELOCITY))),
                        velocity_vector)
              scaled == Mul(space_vector, g)
          IN  IF ct.kind = "error" THEN ct
              ELSE QuadriVector_from_space_vector(cls, ct.val, scaled)

---------------------------------------------------------------------------
(* The heap.  objs[i] is the i-th vector object created: its class and the *)
(* identity of the list its attribute coordinates refers to; lists[l] is   *)
(* the content of list l.  ret records the last call: the operation, its   *)
(* operands (objects of the heap, by index), its other arguments, its      *)
(* outcome and, when it returned a vector, the object returned.            *)

MaxObjs == 3

\* Vector.__init__ with coordinates a list of the class, shared by every
\* vector, that each construction appends to
NewListShared(ls, coordinates) ==
    IF Len(ls) = 0
    THEN [lists |-> <<coordinates>>, id |-> 1]
    ELSE [lists |-> [ls EXCEPT ![1] = @ \o coordinates], id |-> 1]

\* Vector.__init__ on the heap: self.coordinates = [] is a list of its
\* own, then filled with the coordinates
NewList(ls, coordinates) ==
    [lists |-> Append(ls, coordinates), id |-> Len(ls) + 1]

Val(i) == Vec(objs[i].cls, lists[objs[i].coordinates])

Ids == 1..Len(objs)

Call(op, args, cls, ctor, k, energy, out) ==
    [op |-> op, args |-> args, cls |-> cls, ctor |-> ctor, k |-> k,
     energy |-> energy, out |-> out,
     new |-> IF out.kind = "vector" THEN Len(objs) + 1 ELSE 0]

Idle == [op |-> "", args |-> <<>>, cls |-> "", ctor |-> <<>>, k |-> Zero,
         energy |-> NotGiven, out |-> None, new |-> 0]

\* the call returns or raises; a vector returned is a new object.  Calls
\* are made one after the other: ret holds the outcome until the caller
\* takes it (Continue)
Return(op, args, cls, ctor, k, energy, outcome) ==
  /\ ret = Idle
  /\ \E out \in {outcome} :
    /\ out.kind = "vector" => Len(objs) < MaxObjs
    /\ ret' = Call(op, args, cls, ctor, k, energy, out)
    /\ IF out.kind = "vector"
       THEN LET nl == NewList(lists, out.coordinates)
            IN  /\ lists' = nl.lists
                /\ objs' = Append(objs, [cls |-> out.cls, coordinates |-> nl.id])
       ELSE UNCHANGED <<objs, lists>>
    /\ UNCHANGED dobjs

\* the caller takes the outcome of the call and goes on
Continue ==
    /\ ret # Idle
    /\ ret' = Idle
    /\ UNCHANGED <<objs, lists, dobjs>>

\* the arguments the calls are given
CtorArgs ==
    { <<NumArg(InC(3, 5)), StrArg, NumArg(Zero), NumArg(Zero)>> }
WideCtorArgs ==
    { <<>>,
      <<NumArg(InC(1, 1)), NumArg(Zero)>>,
      <<NumArg(InC(3, 5)), NumArg(Zero), NumArg(Zero)>>,
      <<NumArg(InC(3, 5)), StrArg, NumArg(Zero), NumArg(Zero)>>,
      <<NumArg(InC(2, 1)), NumArg(InC(1, 1)), NumArg(Zero), NumArg(Zero)>>,
      <<NumArg(InC(2, 1)), NumArg(InC(1, 1)), NumArg(Zero), NumArg(Zero),
        NumArg(Zero)>> }
Factors == {Q(4, 3, 0)}
Masses == {Zero, Int2R(2)}
Energies == {NotGiven, Given(Zero), Given(InC2(3, 1))}
CtCoordinates == {InC(1, 1)}

ConstructAct(argLists) ==
    \E cls \in Classes, args \in argLists :
        /\ Len(args) <= 5
        /\ Return("construct", <<>>, cls, args, Zero, NotGiven, Construct(cls, args))

AddAct ==
    \E i \in Ids, j \in Ids :
        Return("add", <<i, j>>, "", <<>>, Zero, NotGiven,
               Vector__add__(Val(i), Val(j)))

\* self * something and something * self (__rmul__) for a number
MulScalarAct ==
    \E i \in Ids, k \in Factors :
        Return("mul_scalar", <<i>>, "", <<>>, k, NotGiven, Mul(Val(i), Num(k)))

MulVectorAct ==
    \E i \in Ids, j \in Ids :
        Return("mul_vector", <<i, j>>, "", <<>>, Zero, NotGiven,
               Mul(Val(i), Val(j)))

ToSpaceVectorAct ==
    \E i \in Ids :
        /\ objs[i].cls \in QuadriClasses
        /\ Return("to_space_vector", <<i>>, "", <<>>, Zero, NotGiven,
                  to_space_vector(Val(i)))

QuadriFromSpaceVectorAct ==
    \E j \in Ids, ct \in CtCoordinates :
        /\ objs[j].cls \in SpaceClasses
        /\ Return("from_space_vector", <<j>>, "QuadriVector", <<>>, ct, NotGiven,
                  QuadriVector_from_space_vector("QuadriVector", ct, Val(j)))

VelocityQuadriFromSpaceVectorAct ==
    \E j \in Ids :
        /\ objs[j].cls = "VelocityVector" /\ Exact(Val(j))
        /\ Return("from_space_vector", <<j>>, "VelocityQuadriVector", <<>>, Zero,
                  NotGiven,
                  VelocityQuadriVector_from_space_vector("VelocityQuadriVector",
                                                         Val(j)))

ImpulseFromSpaceVectorAct ==
    \E j \in Ids, mass \in Masses, energy \in Energies :
        /\ objs[j].cls = "VelocityVector" /\ Exact(Val(j))
        /\ Return("from_space_vector", <<j>>, "ImpulseQuadriVector", <<>>, mass,
                  energy,
                  ImpulseQuadriVector_from_space_vector("ImpulseQuadriVector",
                                                        Val(j), mass, energy))

ForceFromSpaceVectorAct ==
    \E j \in Ids, f \in Ids :
        /\ objs[j].cls = "VelocityVector" /\ Exact(Val(j))
        /\ objs[f].cls \in SpaceClasses
        /\ Return("from_space_vector", <<j, f>>, "ForceQuadriVector", <<>>, Zero,
                  NotGiven,
                  ForceQuadriVector_from_space_vector("ForceQuadriVector",
                                                      Val(j), Val(f)))

ComputeBetaAct ==
    \E j \in Ids :
        /\ objs[j].cls = "VelocityVector" /\ Exact(Val(j))
        /\ Return("compute_beta", <<j>>, "", <<>>, Zero, NotGiven,
                  compute_beta(Val(j)))

ComputeGammaAct ==
    \E j \in Ids :
        /\ objs[j].cls = "VelocityVector" /\ Exact(Val(j))
        /\ Return("compute_gamma", <<j>>, "", <<>>, Zero, NotGiven,
                  compute_gamma(Val(j)))

ComputeEnergyAct ==
    \E i \in Ids :
        /\ objs[i].cls = "ImpulseQuadriVector"
        /\ Return("compute_energy", <<i>>, "", <<>>, Zero, NotGiven,
                  compute_energy(Val(i)))

LorentzTransformAct ==
    \E i \in Ids, j \in Ids :
        /\ objs[i].cls \in QuadriClasses
        /\ objs[j].cls = "VelocityVector" /\ Exact(Val(j))
        /\ Return("lorentz_transform", <<i, j>>, "", <<>>, Zero, NotGiven,
                  lorentz_transform(Val(i), Val(j)))

\* the vectors the client holds at the start: a velocity vector, and a
\* space vector or a quadrivector
FirstOperands ==
    { Construct("VelocityVector", <<NumArg(InC(3, 5)), NumArg(Zero), NumArg(Zero)>>),
      Construct("VelocityVector", <<>>) }
SecondOperands ==
    { Construct("SpaceVector", <<NumArg(Zero), NumArg(InC(1, 1)), NumArg(Zero)>>),
      Construct("ImpulseQuadriVector",
                <<NumArg(InC(5, 2)), NumArg(InC(3, 2)), NumArg(Zero), NumArg(Zero)>>) }

Init ==
    \E a \in FirstOperands, b \in SecondOperands :
        \E la \in {NewList(<<>>, a.coordinates)} :
        \E lb \in {NewList(la.lists, b.coordinates)} :
        /\ lists = lb.lists
        /\ objs = << [cls |-> a.cls, coordinates |-> la.id],
                     [cls |-> b.cls, coordinates |-> lb.id] >>
        /\ ret = Idle
        /\ dobjs = <<>>

Next ==
    \/ ConstructAct(CtorArgs)
    \/ AddAct
    \/ MulScalarAct
    \/ MulVectorAct
    \/ ToSpaceVectorAct
    \/ QuadriFromSpaceVectorAct
    \/ VelocityQuadriFromSpaceVectorAct
    \/ ImpulseFromSpaceVectorAct
    \/ ForceFromSpaceVectorAct
    \/ ComputeBetaAct
    \/ ComputeGammaAct
    \/ ComputeEnergyAct
    \/ LorentzTransformAct
    \/ Continue

Spec == Init /\ [][Next]_vars

---------------------------------------------------------------------------
(* Construction, + and * on every class, with and without coordinates.     *)

AlgebraOperands == {o \in {Construct(cls, args) : cls \in Classes, args \in WideCtorArgs} :
                        o.kind = "vector"}

AlgebraInit ==
    \E a \in AlgebraOperands, b \in AlgebraOperands :
        \E la \in {NewList(<<>>, a.coordinates)} :
        \E lb \in {NewList(la.lists, b.coordinates)} :
        /\ lists = lb.lists
        /\ objs = << [cls |-> a.cls, coordinates |-> la.id],
                     [cls |-> b.cls, coordinates |-> lb.id] >>
        /\ ret = Idle
        /\ dobjs = <<>>

AlgebraNext ==
    \/ ConstructAct(WideCtorArgs)
    \/ AddAct
    \/ MulScalarAct
    \/ MulVectorAct
    \/ Continue

AlgebraSpec == AlgebraInit /\ [][AlgebraNext]_vars

---------------------------------------------------------------------------
(* The boost as a function of its inputs: a velocity vector and a          *)
(* quadrivector drawn from bounded sets, then boosts and gamma, beta.      *)

\* coordinates of the velocities, in units of c: |v| is 0, 3/5 c, 4/5 c
\* (gamma 1, 5/4, 5/3), and c or more
Velocities ==
    { <<Zero, Zero, Zero>>,
      <<InC(3, 5), Zero, Zero>>,
      <<Zero, InC(-4, 5), Zero>>,
      <<InC(1, 5), InC(2, 5), InC(-2, 5)>>,
      <<InC(12, 25), Zero, InC(16, 25)>>,
      <<InC(1, 1), Zero, Zero>>,
      <<Zero, InC(3, 5), InC(4, 5)>>,
      <<InC(-2, 1), Zero, Zero>> }

CoordinateValues == {InC(-1, 1), Zero, InC(2, 1)}

Quadris == [1..4 -> CoordinateValues]

BoostInit ==
    \E v \in Velocities, q \in Quadris, cls \in QuadriClasses :
        \E lv \in {NewList(<<>>, v)} :
        \E lq \in {NewList(lv.lists, q)} :
        /\ lists = lq.lists
        /\ objs = << [cls |-> "VelocityVector", coordinates |-> lv.id],
                     [cls |-> cls, coordinates |-> lq.id] >>
        /\ ret = Idle
        /\ dobjs = <<>>

BoostNext ==
    \/ LorentzTransformAct
    \/ ComputeGammaAct
    \/ ComputeBetaAct
    \/ Continue

BoostSpec == BoostInit /\ [][BoostNext]_vars

---------------------------------------------------------------------------
(* The momentum factory as a function of its inputs.                       *)

ImpulseInit ==
    \E v \in Velocities \cup {<<>>} :
        \E lv \in {NewList(<<>>, v)} :
        /\ lists = lv.lists
        /\ objs = << [cls |-> "VelocityVector", coordinates |-> lv.id] >>
        /\ ret = Idle
        /\ dobjs = <<>>

ImpulseNext ==
    \/ ImpulseFromSpaceVectorAct
    \/ ComputeEnergyAct
    \/ ComputeGammaAct
    \/ Continue

ImpulseSpec == ImpulseInit /\ [][ImpulseNext]_vars

---------------------------------------------------------------------------
(* src/src/core/core.py, the draft.  A vector object is its class, its     *)
(* coordinates and, for a VelocityVector, the attributes beta and gamma    *)
(* its constructor sets.  deepcopy copies all of them.  A call produces an *)
(* outcome and, when the outcome is a vector, the attributes it carries.   *)

DObj(cls, coordinates, beta, gamma) ==
    [out |-> Vec(cls, coordinates), beta |-> beta, gamma |-> gamma]
DFail(e) == [out |-> Raise(e), beta |-> Zero, gamma |-> Zero]
DNone == [out |-> None, beta |-> Zero, gamma |-> Zero]

\* the object dobjs[i] as the value a call returns
DVal(i) == DObj(dobjs[i].cls, dobjs[i].coordinates, dobjs[i].beta, dobjs[i].gamma)

core_compute_beta(coordinates) ==
    RDiv(RSqrt(Dot(coordinates, coordinates)), LIGHT_VELOCITY)

\* 1 / (1 - beta ** 2) ** 0.5: a division by 0.0 at beta = 1
core_compute_gamma(coordinates) ==
    LET beta == core_compute_beta(coordinates)
        r == RSub(One, RMul(beta, beta))
    IN  IF r.n = 0 THEN Raise("ZeroDivisionError")
        ELSE Num(RDiv(One, RSqrt(r)))

\* the coordinates whose beta is rational and at most 1, and whose gamma
\* is rational: past beta = 1 Python's gamma is a complex number
DraftExact(coordinates) ==
    LET s == Dot(coordinates, coordinates)
    IN  /\ s.n = 0 \/ s.e = 2
        /\ IsSquare(s.n) /\ IsSquare(s.d)
        /\ ~RLess(LIGHT_VELOCITY_SQUARED, s)
        /\ LET r == RSub(One, RDiv(s, LIGHT_VELOCITY_SQUARED))
           IN  IsSquare(r.n) /\ IsSquare(r.d)

core_SpaceVector__init__(x, y, z) == DObj("SpaceVector", <<x, y, z>>, Zero, Zero)

core_VelocityVector__init__(x, y, z) ==
    LET g == core_compute_gamma(<<x, y, z>>)
    IN  IF g.kind = "error" THEN DFail(g.err)
        ELSE DObj("VelocityVector", <<x, y, z>>,
                  core_compute_beta(<<x, y, z>>), g.val)

\* deepcopy(self) with the coordinates scaled: every other attribute kept
core_Vector__mul__(self, scalar) ==
    DObj(self.out.cls,
         [i \in 1..Len(self.out.coordinates) |-> RMul(scalar, self.out.coordinates[i])],
         self.beta, self.gamma)

\* Vector.__add__: the list of the sums, zip stopping at the shorter list
core_Vector__add__(self, other) ==
    [i \in 1..Min(Len(self.out.coordinates), Len(other.out.coordinates)) |->
        RAdd(self.out.coordinates[i], other.out.coordinates[i])]

\* type(self)(*summed_coordinates)
core_SpaceVector__add__(self, other) ==
    LET summed == core_Vector__add__(self, other)
    IN  IF self.out.cls = "VelocityVector"
        THEN core_VelocityVector__init__(summed[1], summed[2], summed[3])
        ELSE core_SpaceVector__init__(summed[1], summed[2], summed[3])

core_QuadriVector__init__(cls, ct_coordinate, space_vector) ==
    DObj(cls, <<ct_coordinate>> \o space_vector.out.coordinates, Zero, Zero)

\* the method ends without a return statement
core_QuadriVector__add__(self, other) == DNone

core_VelocityQuadriVector__init__(cls, velocity_vector) ==
    core_QuadriVector__init__(cls, RMul(velocity_vector.gamma, LIGHT_VELOCITY),
                              core_Vector__mul__(velocity_vector, velocity_vector.gamma))

core_ImpulseQuadriVector__init__(mass, velocity_vector) ==
    LET q == core_VelocityQuadriVector__init__("ImpulseQuadriVector", velocity_vector)
    IN  DObj("ImpulseQuadriVector",
             [i \in 1..Len(q.out.coordinates) |-> RMul(mass, q.out.coordinates[i])],
             Zero, Zero)

core_lorentz_transform(velocity_vector, quadri_vector) ==
    LET ct_coordinate == quadri_vector.out.coordinates[1]
        space_vector == core_SpaceVector__init__(quadri_vector.out.coordinates[2],
                                                 quadri_vector.out.coordinates[3],
                                                 quadri_vector.out.coordinates[4])
        v == velocity_vector.out.coordinates
        ct_coordinate_transformed ==
            RMul(velocity_vector.gamma,
                 RSub(ct_coordinate,
                      RDiv(Dot(v, space_vector.out.coordinates), LIGHT_VELOCITY)))
        squared_norm == Dot(v, v)
    IN  IF squared_norm.n = 0 THEN DFail("ZeroDivisionError")
        ELSE
          LET coefficient ==
                  RSub(RMul(RSub(velocity_vector.gamma, One),
                            RDiv(Dot(space_vector.out.coordinates, v), squared_norm)),
                       RDiv(RMul(velocity_vector.gamma, ct_coordinate), LIGHT_VELOCITY))
              space_vector_transformed ==
                  core_SpaceVector__add__(space_vector,
                                          core_Vector__mul__(velocity_vector, coefficient))
          IN  DObj(quadri_vector.out.cls,
                   <<ct_coordinate_transformed>>
                       \o space_vector_transformed.out.coordinates,
                   quadri_vector.beta, quadri_vector.gamma)

DIds == 1..Len(dobjs)

DraftReturn(op, args, cls, k, result) ==
  /\ ret = Idle
  /\ \E r \in {result} :
    /\ r.out.kind = "vector" => Len(dobjs) < MaxObjs
    /\ ret' = [op |-> op, args |-> args, cls |-> cls, ctor |-> <<>>, k |-> k,
               energy |-> NotGiven, out |-> r.out,
               new |-> IF r.out.kind = "vector" THEN Len(dobjs) + 1 ELSE 0]
    /\ IF r.out.kind = "vector"
       THEN dobjs' = Append(dobjs, [cls |-> r.out.cls,
                                    coordinates |-> r.out.coordinates,
                                    beta |-> r.beta, gamma |-> r.gamma])
       ELSE UNCHANGED dobjs
    /\ UNCHANGED <<objs, lists>>

DraftCoordinates ==
    { <<InC(3, 5), Zero, Zero>>, <<Zero, Zero, Zero>> }
DraftFactors == {Q(4, 3, 0)}
DraftMasses == {Int2R(2)}

DraftSpaceVectorAct ==
    \E c \in DraftCoordinates :
        /\ Len(c) = 3
        /\ DraftReturn("construct", <<>>, "SpaceVector", Zero,
                       core_SpaceVector__init__(c[1], c[2], c[3]))

DraftVelocityVectorAct ==
    \E c \in DraftCoordinates :
        /\ DraftExact(c)
        /\ DraftReturn("construct", <<>>, "VelocityVector", Zero,
                       core_VelocityVector__init__(c[1], c[2], c[3]))

DraftMulAct ==
    \E i \in DIds, k \in DraftFactors :
        DraftReturn("mul_scalar", <<i>>, "", k, core_Vector__mul__(DVal(i), k))

DraftAddAct ==
    \E i \in DIds, j \in DIds :
        /\ dobjs[i].cls \in SpaceClasses /\ dobjs[j].cls \in SpaceClasses
        /\ dobjs[i].cls = "VelocityVector" =>
              DraftExact(core_Vector__add__(DVal(i), DVal(j)))
        /\ DraftReturn("add", <<i, j>>, "", Zero,
                       core_SpaceVector__add__(DVal(i), DVal(j)))

DraftQuadriAddAct ==
    \E i \in DIds, j \in DIds :
        /\ dobjs[i].cls \in QuadriClasses /\ dobjs[j].cls \in QuadriClasses
        /\ DraftReturn("add", <<i, j>>, "", Zero,
                       core_QuadriVector__add__(DVal(i), DVal(j)))

DraftQuadriVectorAct ==
    \E j \in DIds, ct \in CtCoordinates :
        /\ dobjs[j].cls \in SpaceClasses
        /\ DraftReturn("construct", <<j>>, "QuadriVector", ct,
                       core_QuadriVector__init__("QuadriVector", ct, DVal(j)))

DraftVelocityQuadriVectorAct ==
    \E j \in DIds :
        /\ dobjs[j].cls = "VelocityVector"
        /\ DraftReturn("construct", <<j>>, "VelocityQuadriVector", Zero,
                       core_VelocityQuadriVector__init__("VelocityQuadriVector",
                                                         DVal(j)))

DraftImpulseQuadriVectorAct ==
    \E j \in DIds, mass \in DraftMasses :
        /\ dobjs[j].cls = "VelocityVector"
        /\ DraftReturn("construct", <<j>>, "ImpulseQuadriVector", mass,
                       core_ImpulseQuadriVector__init__(mass, DVal(j)))

DraftLorentzTransformAct ==
    \E j \in DIds, i \in DIds :
        /\ dobjs[j].cls = "VelocityVector"
        /\ dobjs[i].cls \in QuadriClasses
        /\ DraftReturn("lorentz_transform", <<i, j>>, "", Zero,
                       core_lorentz_transform(DVal(j), DVal(i)))

DraftInit ==
    /\ dobjs = <<>>
    /\ objs = <<>>
    /\ lists = <<>>
    /\ ret = Idle

DraftNext ==
    \/ DraftSpaceVectorAct
    \/ DraftVelocityVectorAct
    \/ DraftMulAct
    \/ DraftAddAct
    \/ DraftQuadriAddAct
    \/ DraftQuadriVectorAct
    \/ DraftVelocityQuadriVectorAct
    \/ DraftImpulseQuadriVectorAct
    \/ DraftLorentzTransformAct
    \/ Continue

DraftSpec == DraftInit /\ [][DraftNext]_vars

---------------------------------------------------------------------------
(* The claims.  Receiver and Argument are the operands of the last call,   *)
(* as they are in the heap after it.                                       *)

Receiver == Val(ret.args[1])
Argument == Val(ret.args[2])

IsZeroVelocity(v) == v.coordinates = <<Zero, Zero, Zero>>

SquaredNorm(v) == Dot(v.coordinates, v.coordinates)

\* C1: boosting a 4-coordinate quadrivector by VelocityVector(0, 0, 0)
\* returns a quadrivector with the same four coordinates, and raises nothing
C1_ZeroBoostIsIdentity ==
    (/\ ret.op = "lorentz_transform"
     /\ Len(Receiver.coordinates) = 4
     /\ IsZeroVelocity(Argument))
        => /\ ret.out.kind = "vector"
           /\ ret.out.coordinates = Receiver.coordinates

\* C2: for a velocity with v . v >= c ** 2, compute_gamma and compute_beta
\* both raise NotDefinedError
C2_SuperluminalRaises ==
    (/\ ret.op \in {"compute_gamma", "compute_beta"}
     /\ ~RLess(SquaredNorm(Receiver), LIGHT_VELOCITY_SQUARED))
        => ret.out = Raise("NotDefinedError")

Arity(cls) == IF cls \in SpaceClasses THEN 3 ELSE 4

ExactlyNumbers(args, n) == Len(args) = n /\ \A k \in 1..Len(args) : args[k].isnum

\* C3: a constructor given anything but exactly 3 numbers (a space or
\* velocity vector) or exactly 4 numbers (a quadrivector) raises
\* VectorShapeError, so that a vector constructed has 3, or 4, coordinates
C3_ShapeError ==
    ret.op = "construct"
        => /\ ~ExactlyNumbers(ret.ctor, Arity(ret.cls))
                => ret.out = Raise("VectorShapeError")
           /\ ret.out.kind = "vector"
                => Len(ret.out.coordinates) = Arity(ret.cls)

\* C4: for a 4-coordinate quadrivector Q and a nonzero velocity v slower
\* than light, Q.lorentz_transform(v) is a quadrivector whose Minkowski
\* self-product equals that of Q
C4_BoostPreservesInterval ==
    (/\ ret.op = "lorentz_transform"
     /\ Len(Receiver.coordinates) = 4
     /\ Len(Argument.coordinates) = 3
     /\ ~IsZeroVelocity(Argument)
     /\ RLess(SquaredNorm(Argument), LIGHT_VELOCITY_SQUARED))
        => /\ ret.out.kind = "vector"
           /\ Mul(ret.out, ret.out) = Mul(Receiver, Receiver)

\* a boost by a velocity off the axes that changes every coordinate of a
\* quadrivector whose interval is not 0
C4_Witness ==
    /\ ret.op = "lorentz_transform"
    /\ ret.out.kind = "vector"
    /\ \A k \in 1..3 : Argument.coordinates[k] # Zero
    /\ \A k \in 1..4 : ret.out.coordinates[k] # Receiver.coordinates[k]
    /\ Mul(Receiver, Receiver).val # Zero
    /\ RLess(Mul(Receiver, Receiver).val, Zero)

IsImpulseFactory ==
    ret.op = "from_space_vector" /\ ret.cls = "ImpulseQuadriVector"

\* the energy the factory goes on with: the one supplied, or gamma * mass * c ** 2
FactoryEnergy ==
    IF NotTruthy(ret.energy)
    THEN RMul(RMul(compute_gamma(Receiver).val, ret.k), LIGHT_VELOCITY_SQUARED)
    ELSE ret.energy.v

Scaled(k, coordinates) == [i \in 1..Len(coordinates) |-> RMul(k, coordinates[i])]

\* C5, as stated: the factory returns (E / c ** 2) * (c, gamma * v.x,
\* gamma * v.y, gamma * v.z)
C5_CoordinatesWithGamma ==
    (/\ IsImpulseFactory
     /\ ret.out.kind = "vector"
     /\ RLess(SquaredNorm(Receiver), LIGHT_VELOCITY_SQUARED))
        => ret.out.coordinates =
              Scaled(RDiv(FactoryEnergy, LIGHT_VELOCITY_SQUARED),
                     <<LIGHT_VELOCITY>>
                        \o Scaled(compute_gamma(Receiver).val, Receiver.coordinates))

\* C5, amended: the factory returns (E / c ** 2) * (c, v.x, v.y, v.z), for
\* E the supplied energy when it is not 0 and gamma * mass * c ** 2 otherwise
C5_Coordinates ==
    (IsImpulseFactory /\ ret.out.kind = "vector")
        => /\ ret.out.cls = "ImpulseQuadriVector"
           /\ ret.out.coordinates =
                 Scaled(RDiv(FactoryEnergy, LIGHT_VELOCITY_SQUARED),
                        <<LIGHT_VELOCITY>> \o Receiver.coordinates)

\* the factory computes the energy of a moving mass: gamma is not 1
C5_Witness ==
    /\ IsImpulseFactory
    /\ ret.out.kind = "vector"
    /\ ~ret.energy.given
    /\ compute_gamma(Receiver).val # One
    /\ \A k \in 1..4 : ret.out.coordinates[k] # Zero

\* C6: for v slower than light, an energy supplied (0 included) is the
\* energy of the result; with none supplied and mass # 0 the energy is
\* gamma * mass * c ** 2; MissingParameterError is raised exactly when no
\* energy is supplied and mass = 0
C6_EnergySelection ==
    (/\ IsImpulseFactory
     /\ Len(Receiver.coordinates) = 3
     /\ RLess(SquaredNorm(Receiver), LIGHT_VELOCITY_SQUARED))
        => /\ ret.energy.given
                => /\ ret.out.kind = "vector"
                   /\ compute_energy(ret.out) = Num(ret.energy.v)
           /\ (~ret.energy.given /\ ret.k # Zero)
                => /\ ret.out.kind = "vector"
                   /\ compute_energy(ret.out) =
                         Num(RMul(RMul(compute_gamma(Receiver).val, ret.k),
                                  LIGHT_VELOCITY_SQUARED))
           /\ ret.out = Raise("MissingParameterError")
                <=> (~ret.energy.given /\ ret.k = Zero)

\* C7: the gamma and beta that the draft's constructors and boost read off
\* a VelocityVector are those of its coordinates
C7_GammaBetaNeverStale ==
    \A i \in DIds :
        (dobjs[i].cls = "VelocityVector" /\ DraftExact(dobjs[i].coordinates))
            => /\ dobjs[i].beta = core_compute_beta(dobjs[i].coordinates)
               /\ Num(dobjs[i].gamma) = core_compute_gamma(dobjs[i].coordinates)

\* C8: + and * between a space vector and a quadrivector, or between
\* vectors with different numbers of coordinates, raise TypeError
C8_IncompatibleOperandsRaiseTypeError ==
    (/\ ret.op \in {"add", "mul_vector"}
     /\ \/ IsSpaceVector(Receiver) # IsSpaceVector(Argument)
        \/ Len(Receiver.coordinates) # Len(Argument.coordinates))
        => ret.out = Raise("TypeError")

\* no two vectors share the list of their coordinates
NoSharedLists ==
    \A i \in Ids, j \in Ids : i # j => objs[i].coordinates # objs[j].coordinates

\* a step leaves every vector there is its list and its coordinates
FrameStep ==
    \A i \in Ids :
        /\ i <= Len(objs')
        /\ objs'[i] = objs[i]
        /\ objs[i].coordinates <= Len(lists')
        /\ lists'[objs[i].coordinates] = lists[objs[i].coordinates]

\* C9: no operation changes the coordinates of a vector there is, and the
\* list of a vector returned is shared with no other vector
C9_ValueObjects == []NoSharedLists /\ [][FrameStep]_vars

\* a quadrivector made by from_space_vector of a space vector that is
\* still there, with the coordinates it had
C9_Witness ==
    /\ ret.op = "from_space_vector"
    /\ ret.new = 3
    /\ Len(Receiver.coordinates) = 3
    /\ SubSeq(Val(ret.new).coordinates, 2, 4) # <<Zero, Zero, Zero>>
    /\ objs[ret.new].coordinates \notin {objs[1].coordinates, objs[2].coordinates}

DReceiver == dobjs[ret.args[1]]

\* C10: in the draft, + and * by a number return a vector of the class of
\* the (left) vector operand, and a boost one of the class of the
\* quadrivector boosted
C10_TypePreserved ==
    (ret.op \in {"add", "mul_scalar", "lorentz_transform"} /\ ret.out.kind # "error")
        => /\ ret.out.kind = "vector"
           /\ ret.out.cls = DReceiver.cls

=============================================================================
